---------------------------- MODULE Spec2Model ----------------------------
(***************************************************************************)
(* Model of the two benchmark-data generators of the repository:           *)
(*   scripts/generate_crewscheduling_data.py  (flight networks)            *)
(*   scripts/generate_setcover_data.py        (foods covering nutrients)   *)
(*                                                                         *)
(* Each script is a sequential program: main() seeds the module-global     *)
(* random generator, then calls generate_test_file once per configuration. *)
(* The model runs one of the two programs (prog), over a configuration     *)
(* list (configs) that generalises TEST_CONFIGS to small scales, the       *)
(* non-positive ones included.                                             *)
(*                                                                         *)
(* The random module is modelled by what the scripts observe of it: a      *)
(* stream of values consumed one per call of randbelow/random, in program  *)
(* order.  The stream is an input: any periodic sequence of period         *)
(* StreamLen over 0 .. RandRange-1, each value read as a quantile of the   *)
(* range asked for.  Everything the scripts compute is then a function of  *)
(* the stream and the configuration list, except the iteration order of    *)
(* the set `uncovered` in ensure_coverage, a set of str, whose order       *)
(* Python's per-process string hashing decides: the model chooses it       *)
(* nondeterministically.  A twin run (twin_food_items, twin_files) reads   *)
(* the same stream and the same configurations and differs only by that    *)
(* choice.                                                                 *)
(***************************************************************************)
EXTENDS Integers, Sequences, FiniteSets, TLC

VARIABLES
    prog,             \* which script runs: "crew" or "setcover"
    stream,           \* the values the seeded generator will return, one period
    rng,              \* position of the generator in the stream
    draws,            \* values consumed since the current configuration began
    configs,          \* TEST_CONFIGS
    ci,               \* index in configs of the current configuration (0: none yet)
    pc,               \* the statement the program is at
    airports,         \* generate_test_file (crew): airports
    flights,          \* generate_test_file (crew): flights
    universe,         \* generate_test_file (set cover): universe
    food_items,       \* generate_test_file (set cover): food_items
    max_calories,     \* generate_test_file (set cover): max_calories, in hundredths
    files,            \* the data directory: filename -> lines
    generated_files,  \* main: generated_files
    twin_food_items,  \* food_items of the twin run
    twin_files        \* the data directory of the twin run

vars == <<prog, stream, rng, draws, configs, ci, pc, airports, flights,
          universe, food_items, max_calories, files, generated_files,
          twin_food_items, twin_files>>

----------------------------------------------------------------------------
(* Bounds of the model. *)

MaxAirports == 5
MaxFlights == 2
MaxFoods == 2
StreamLen == 3
RandRange == 3
MaxPermuted == 3

\* num_nutrients: non-positive, below MIN_NUTRIENTS_PER_FOOD, equal to it,
\* a few more, and past one cycle of the 10 prefixes.
NutrientCounts == {0 - 1, 0, 1, 2, 3, 5, 12}

----------------------------------------------------------------------------
(* Program constants. *)

MIN_FLIGHT_DURATION == 60
MAX_FLIGHT_DURATION == 600
TIME_HORIZON == 10000

MIN_CALORIES == 2000
MAX_CALORIES == 2500
MIN_NUTRIENTS_PER_FOOD == 3
MAX_NUTRIENT_UPPER_LIMIT == 10
\* MAX_NUTRIENT_FRACTION = 0.2, as the divisor of int(num_nutrients * 0.2)
MAX_NUTRIENT_FRACTION_DIV == 5

----------------------------------------------------------------------------
(* Sequences. *)

Range(s) == {s[i] : i \in DOMAIN s}

Max(a, b) == IF a >= b THEN a ELSE b

Min(a, b) == IF a <= b THEN a ELSE b

\* ";".join(strs)
RECURSIVE Join(_)
Join(strs) ==
    IF Len(strs) = 0 THEN ""
    ELSE IF Len(strs) = 1 THEN strs[1]
    ELSE strs[1] \o ";" \o Join(Tail(strs))

\* [a for a in seq if a != x]
Without(seq, x) == SelectSeq(seq, LAMBDA a : a # x)

----------------------------------------------------------------------------
(* The random module, as the scripts use it. *)

\* The value the generator returns k calls after position pos.
Value(pos, k) == stream[((pos + k) % StreamLen) + 1]

\* random._randbelow(n), n >= 1, from the stream value r read as a quantile:
\* 0 gives 0 and RandRange-1 gives n-1.
RandBelow(n, r) == (r * (n - 1)) \div (RandRange - 1)

\* random.randint(a, b) == a + _randbelow(b - a + 1)
RandInt(a, b, r) == a + RandBelow(b - a + 1, r)

\* random.choice(seq) == seq[_randbelow(len(seq))], seq not empty; an empty seq
\* raises IndexError before the generator is touched.
Choice(seq, r) == seq[RandBelow(Len(seq), r) + 1]


----------------------------------------------------------------------------
(* generate_crewscheduling_data.py *)

airport_codes ==
    <<"JFK", "LAX", "ORD", "DFW", "DEN", "SFO", "SEA", "LAS", "MCO", "EWR",
      "CLT", "PHX", "IAH", "MIA", "BOS", "MSP", "FLL", "DTW", "PHL", "LGA",
      "BWI", "SLC", "SAN", "DCA", "IAD", "MDW", "TPA", "PDX", "STL", "HNL",
      "AUS", "BNA", "OAK", "MSY", "RDU", "SJC", "SMF", "SNA", "PIT", "CVG",
      "CMH", "IND", "MCI", "BDL", "BUF", "OMA", "ONT", "ANC", "ABQ", "TUS">>

\* f"AP{i+1:02d}"
SyntheticCode(i) == "AP" \o (IF i + 1 < 10 THEN "0" ELSE "") \o ToString(i + 1)

\* generate_airports(num_airports): range() of a non-positive count is empty.
generate_airports(num_airports) ==
    [i \in 1 .. Max(num_airports, 0) |->
        IF i - 1 < Len(airport_codes) THEN airport_codes[i] ELSE SyntheticCode(i - 1)]

\* The curated codes in the order of Python's str comparison, which the sort
\* key (departure_time, departure_airport) uses.  The synthetic codes are
\* beyond the scales of the model.
codes_in_str_order ==
    <<"ABQ", "ANC", "AUS", "BDL", "BNA", "BOS", "BUF", "BWI", "CLT", "CMH",
      "CVG", "DCA", "DEN", "DFW", "DTW", "EWR", "FLL", "HNL", "IAD", "IAH",
      "IND", "JFK", "LAS", "LAX", "LGA", "MCI", "MCO", "MDW", "MIA", "MSP",
      "MSY", "OAK", "OMA", "ONT", "ORD", "PDX", "PHL", "PHX", "PIT", "RDU",
      "SAN", "SEA", "SFO", "SJC", "SLC", "SMF", "SNA", "STL", "TPA", "TUS">>

StrRank(code) == CHOOSE i \in DOMAIN codes_in_str_order : codes_in_str_order[i] = code

\* key(f) <= key(g) for key = lambda f: (f["departure_time"], f["departure_airport"])
KeyLeq(f, g) ==
    \/ f.departure_time < g.departure_time
    \/ /\ f.departure_time = g.departure_time
       /\ StrRank(f.departure_airport) <= StrRank(g.departure_airport)

\* One step of the stable sort: f goes after every flight whose key is <= its own.
RECURSIVE InsertByKey(_, _)
InsertByKey(sorted, f) ==
    IF Len(sorted) = 0 THEN <<f>>
    ELSE IF KeyLeq(sorted[1], f) THEN <<sorted[1]>> \o InsertByKey(Tail(sorted), f)
    ELSE <<f>> \o sorted

\* flights.sort(key=...): stable, ascending.
RECURSIVE SortFlights(_)
SortFlights(fs) ==
    IF Len(fs) = 0 THEN <<>>
    ELSE InsertByKey(SortFlights(SubSeq(fs, 1, Len(fs) - 1)), fs[Len(fs)])

\* DepartureTime with the duration forgotten: random.randint(0, TIME_HORIZON)
DepartureTimeWholeHorizon(r) == RandInt(0, TIME_HORIZON, r)

\* random.randint(0, TIME_HORIZON - MAX_FLIGHT_DURATION)
DepartureTime(r) == RandInt(0, TIME_HORIZON - MAX_FLIGHT_DURATION, r)

\* random.randint(MIN_FLIGHT_DURATION, MAX_FLIGHT_DURATION)
Duration(r) == RandInt(MIN_FLIGHT_DURATION, MAX_FLIGHT_DURATION, r)

\* OtherAirport without the filter: random.choice(airports)
AnyAirport(aps, dep_airport, r) == Choice(aps, r)

\* random.choice([a for a in airports if a != dep_airport]), not empty
OtherAirport(aps, dep_airport, r) == Choice(Without(aps, dep_airport), r)

\* The flight record both functions build from a departure airport and the
\* next three values of the generator.
Flight(aps, dep_airport, pos) ==
    LET dep_time == DepartureTime(Value(pos, 1))
        duration == Duration(Value(pos, 2))
    IN  [departure_airport |-> dep_airport,
         arrival_airport   |-> OtherAirport(aps, dep_airport, Value(pos, 0)),
         departure_time    |-> dep_time,
         arrival_time      |-> dep_time + duration]

\* The loop of generate_flight_schedule from iteration i on, the generator at
\* pos and `used` values consumed so far.  [ok, flights, used]: ok is FALSE
\* when random.choice raises IndexError (an empty sequence), which happens
\* before choice reads the generator.
RECURSIVE ScheduleLoop(_, _, _, _, _, _)
ScheduleLoop(aps, num_flights, i, acc, pos, used) ==
    IF i >= num_flights THEN [ok |-> TRUE, flights |-> acc, used |-> used]
    ELSE IF Len(aps) = 0 THEN [ok |-> FALSE, flights |-> acc, used |-> used]
    ELSE LET dep_airport == Choice(aps, Value(pos, 0))
         IN  IF Len(Without(aps, dep_airport)) = 0
             THEN [ok |-> FALSE, flights |-> acc, used |-> used + 1]
             ELSE ScheduleLoop(aps, num_flights, i + 1,
                               Append(acc, Flight(aps, dep_airport, pos + 1)),
                               pos + 4, used + 4)

\* generate_flight_schedule(airports, num_flights)
generate_flight_schedule(aps, num_flights, pos) ==
    LET r == ScheduleLoop(aps, num_flights, 0, <<>>, pos, 0)
    IN  [ok |-> r.ok, used |-> r.used,
         flights |-> IF r.ok THEN SortFlights(r.flights) ELSE r.flights]

\* has_departure, as the first loop of ensure_connectivity leaves it
HasDeparture(fs) == {fs[i].departure_airport : i \in DOMAIN fs}

\* The second loop of ensure_connectivity from airport index i on.
\* has_departure is not updated by the loop.
RECURSIVE ConnectivityLoop(_, _, _, _, _, _)
ConnectivityLoop(aps, has_departure, i, acc, pos, used) ==
    IF i > Len(aps) THEN [ok |-> TRUE, flights |-> acc, used |-> used]
    ELSE IF aps[i] \in has_departure
    THEN ConnectivityLoop(aps, has_departure, i + 1, acc, pos, used)
    ELSE IF Len(Without(aps, aps[i])) = 0
    THEN [ok |-> FALSE, flights |-> acc, used |-> used]
    ELSE ConnectivityLoop(aps, has_departure, i + 1,
                          Append(acc, Flight(aps, aps[i], pos)), pos + 3, used + 3)

\* has_arrival, which the first loop of ensure_connectivity fills too
HasArrival(fs) == {fs[i].arrival_airport : i \in DOMAIN fs}

\* ensure_connectivity testing `airport not in has_arrival`
ensure_connectivity_by_arrival(aps, fs, pos) ==
    ConnectivityLoop(aps, HasArrival(fs), 1, fs, pos, 0)

\* ensure_connectivity sorting the list again after it appended to it
ensure_connectivity_resorted(aps, fs, pos) ==
    LET r == ConnectivityLoop(aps, HasDeparture(fs), 1, fs, pos, 0)
    IN  [r EXCEPT !.flights = SortFlights(@)]

\* ensure_connectivity(airports, flights): the list after the call
ensure_connectivity(aps, fs, pos) ==
    ConnectivityLoop(aps, HasDeparture(fs), 1, fs, pos, 0)

\* f"crewscheduling_a{num_airports}_f{num_flights}.csv"
CrewFilename(cfg) ==
    "crewscheduling_a" \o ToString(cfg[1]) \o "_f" \o ToString(cfg[2]) \o ".csv"

FlightLine(f) ==
    f.departure_airport \o "," \o f.arrival_airport \o ","
        \o ToString(f.departure_time) \o "," \o ToString(f.arrival_time)

\* The lines generate_test_file writes.
CrewLines(aps, fs) ==
    <<"#AIRPORTS," \o Join(aps)>> \o [i \in DOMAIN fs |-> FlightLine(fs[i])]

----------------------------------------------------------------------------
(* generate_setcover_data.py *)

prefixes ==
    <<"Vitamin", "Mineral", "Protein", "Fiber", "Omega",
      "Amino", "Enzyme", "Antioxidant", "Electrolyte", "Nutrient">>

\* chr(ord('A') + k) for k in 0 .. 30, the cycles of the first 310 nutrients
chr_from_A ==
    <<"A", "B", "C", "D", "E", "F", "G", "H", "I", "J", "K", "L", "M",
      "N", "O", "P", "Q", "R", "S", "T", "U", "V", "W", "X", "Y", "Z",
      "[", "\\", "]", "^", "_">>

\* Suffix with the first cycle's letter given to the second: chr(ord('A') + k - 1)
SuffixFromA(i) ==
    IF i >= Len(prefixes) THEN chr_from_A[i \div Len(prefixes)] ELSE ""

\* suffix = chr(ord('A') + (i // len(prefixes))) if i >= len(prefixes) else ''
Suffix(i) ==
    IF i >= Len(prefixes) THEN chr_from_A[(i \div Len(prefixes)) + 1] ELSE ""

\* nutrient_name = f"{prefix}{suffix}{index}" of loop index i
NutrientName(i) ==
    prefixes[(i % Len(prefixes)) + 1] \o Suffix(i) \o ToString((i % Len(prefixes)) + 1)

\* generate_universe(num_nutrients): range() of a non-positive count is empty.
generate_universe(num_nutrients) ==
    [j \in 1 .. Max(num_nutrients, 0) |-> NutrientName(j - 1)]

food_types ==
    <<"Apple", "Banana", "Carrot", "Spinach", "Chicken", "Beef", "Salmon",
      "Rice", "Pasta", "Bread", "Milk", "Cheese", "Yogurt", "Eggs", "Tofu",
      "Broccoli", "Tomato", "Potato", "Orange", "Grape", "Lettuce", "Onion",
      "Garlic", "Pepper", "Corn", "Beans", "Lentils", "Almonds", "Walnuts">>

\* max_nutrients = max(MAX_NUTRIENT_UPPER_LIMIT, int(num_nutrients * MAX_NUTRIENT_FRACTION));
\* int() truncates towards zero, and a negative product loses to the limit either way.
MaxNutrients(num_nutrients) ==
    Max(MAX_NUTRIENT_UPPER_LIMIT, num_nutrients \div MAX_NUTRIENT_FRACTION_DIV)

\* random.sample(population, k), 0 <= k <= len(population), by the pool the
\* library uses for populations of at most 21: result[i] = pool[j] for
\* j = _randbelow(n - i), then pool[j] = pool[n - i - 1].
RECURSIVE SamplePool(_, _, _, _, _)
SamplePool(pool, k, i, acc, pos) ==
    IF i >= k THEN acc
    ELSE LET n == Len(pool)
             j == RandBelow(n - i, Value(pos, i)) + 1
         IN  SamplePool([pool EXCEPT ![j] = pool[n - i]], k, i + 1,
                        Append(acc, pool[j]), pos)

\* Sample that leaves the pool as it is: a nutrient can be drawn twice.
SampleWithReplacement(population, k, pos) ==
    [i \in 1 .. k |-> population[RandBelow(Len(population) - (i - 1), Value(pos, i - 1)) + 1]]

Sample(population, k, pos) == SamplePool(population, k, 0, <<>>, pos)

\* num_nutrients = min(random.randint(min_nutrients, max_nutrients), len(universe))
NutrientCount(univ, min_nutrients, max_nutrients, r) ==
    Min(RandInt(min_nutrients, max_nutrients, r), Len(univ))

\* generate_food_item(food_id, universe, min_nutrients, max_nutrients)
generate_food_item(food_id, univ, min_nutrients, max_nutrients, pos) ==
    LET calories      == RandInt(MIN_CALORIES, MAX_CALORIES, Value(pos, 0))
        num_nutrients == NutrientCount(univ, min_nutrients, max_nutrients, Value(pos, 1))
        nutrients     == Sample(univ, num_nutrients, pos + 2)
        food_type     == Choice(food_types, Value(pos, 2 + num_nutrients))
    IN  [used |-> 3 + num_nutrients,
         food |-> [name      |-> food_type \o "_" \o ToString(food_id),
                   calories  |-> calories,
                   nutrients |-> nutrients]]

\* covered, as the first loop of ensure_coverage leaves it
Covered(foods) == UNION {Range(foods[i].nutrients) : i \in DOMAIN foods}

\* uncovered = set(universe) - covered
Uncovered(foods, univ) == Range(univ) \ Covered(foods)

\* The sequences that enumerate the set S once each.
Orderings(S) ==
    {p \in [1 .. Cardinality(S) -> S] : \A i, j \in DOMAIN p : p[i] = p[j] => i = j}

Reverse(s) == [i \in 1 .. Len(s) |-> s[Len(s) + 1 - i]]

\* The orders in which the loop over the set uncovered may visit it: every
\* order for sets of at most MaxPermuted elements, and for larger sets the
\* order of the universe and its reverse.
IterationOrders(S, univ) ==
    IF Cardinality(S) <= MaxPermuted THEN Orderings(S)
    ELSE LET asc == SelectSeq(univ, LAMBDA n : n \in S)
         IN  {asc, Reverse(asc)}

\* random_food["nutrients"].append(nutrient) for random_food = random.choice(food_items)
AppendNutrient(foods, nutrient, r) ==
    LET k == RandBelow(Len(foods), r) + 1
    IN  [foods EXCEPT ![k].nutrients = Append(@, nutrient)]

\* The loop `for nutrient in uncovered` visiting the set in `order`, from
\* position i of the order.  random.choice raises IndexError on an empty
\* food_items, before it reads the generator.
RECURSIVE CoverageLoop(_, _, _, _, _)
CoverageLoop(foods, order, i, pos, used) ==
    IF i > Len(order) THEN [ok |-> TRUE, food_items |-> foods, used |-> used]
    ELSE IF Len(foods) = 0 THEN [ok |-> FALSE, food_items |-> foods, used |-> used]
    ELSE CoverageLoop(AppendNutrient(foods, order[i], Value(pos, 0)), order,
                      i + 1, pos + 1, used + 1)

\* ensure_coverage whose loop stops one nutrient short
ensure_coverage_one_short(foods, order, pos) ==
    CoverageLoop(foods, SubSeq(order, 1, Len(order) - 1), 1, pos, 0)

\* ensure_coverage(food_items, universe), the set uncovered iterated in `order`
ensure_coverage(foods, order, pos) == CoverageLoop(foods, order, 1, pos, 0)

RECURSIVE TotalCalories(_)
TotalCalories(foods) ==
    IF Len(foods) = 0 THEN 0 ELSE foods[1].calories + TotalCalories(Tail(foods))

\* calculate_max_calories(food_items, universe), in hundredths of a calorie.
\* random.uniform(0.4, 0.6) is read in whole percents; the division by
\* len(food_items) raises ZeroDivisionError after uniform has read the generator.
calculate_max_calories(foods, univ, pos) ==
    LET total_calories     == TotalCalories(foods)
        fraction_pct       == RandInt(40, 60, Value(pos, 0))
        max_cal            == total_calories * fraction_pct
        min_foods_estimate == (Len(univ) \div 3) + 1
    IN  IF Len(foods) = 0 THEN [ok |-> FALSE, used |-> 1, value |-> 0]
        ELSE LET min_needed ==
                     (2 * 100 * min_foods_estimate * total_calories + Len(foods))
                         \div (2 * Len(foods))
             IN  [ok |-> TRUE, used |-> 1, value |-> Max(max_cal, min_needed)]

\* f"setcover_f{num_foods}_n{num_nutrients}.csv"
SetCoverFilename(cfg) ==
    "setcover_f" \o ToString(cfg[1]) \o "_n" \o ToString(cfg[2]) \o ".csv"

\* f"{max_calories:.2f}"
TwoDecimals(hundredths) ==
    ToString(hundredths \div 100) \o "."
        \o (IF hundredths % 100 < 10 THEN "0" ELSE "") \o ToString(hundredths % 100)

FoodLine(food) ==
    food.name \o "," \o ToString(food.calories) \o "," \o Join(food.nutrients)

\* The lines generate_test_file writes.
SetCoverLines(univ, max_cal, foods) ==
    <<"#UNIVERSE," \o Join(univ), "#MAX_CALORIES," \o TwoDecimals(max_cal)>>
        \o [i \in DOMAIN foods |-> FoodLine(foods[i])]

----------------------------------------------------------------------------
(* The configurations. *)

\* TEST_CONFIGS[0] of each script
FirstTestConfig(p) == IF p = "crew" THEN <<3, 10>> ELSE <<10, 5>>

\* (num_airports, num_flights), or (num_foods, num_nutrients)
ConfigSpace(p) ==
    IF p = "crew"
    THEN ((0 - 1) .. MaxAirports) \X (0 .. MaxFlights)
    ELSE ((0 - 1) .. MaxFoods) \X NutrientCounts

\* The lists main iterates: one configuration, alone or after the script's
\* first test configuration.
TestConfigLists(p) ==
    {<<c>> : c \in ConfigSpace(p)} \cup {<<FirstTestConfig(p), c>> : c \in ConfigSpace(p)}

\* The configuration generate_test_file was called with.
cfg == configs[ci]

----------------------------------------------------------------------------
(* The programs. *)

Init ==
    /\ prog \in {"crew", "setcover"}
    /\ stream \in [1 .. StreamLen -> 0 .. RandRange - 1]
    /\ configs \in TestConfigLists(prog)
    /\ rng = 0
    /\ draws = 0
    /\ ci = 0
    /\ pc = "main"
    /\ airports = <<>>
    /\ flights = <<>>
    /\ universe = <<>>
    /\ food_items = <<>>
    /\ max_calories = 0
    /\ files = <<>>
    /\ generated_files = <<>>
    /\ twin_food_items = <<>>
    /\ twin_files = <<>>

\* The generator after `used` more values.
Advance(used) ==
    /\ rng' = (rng + used) % StreamLen
    /\ draws' = draws + used

\* main, up to its loop: random.seed(RANDOM_SEED); the data directory exists or is made.
Main ==
    /\ pc = "main"
    /\ rng' = 0
    /\ pc' = "loop"
    /\ UNCHANGED <<prog, stream, draws, configs, ci, airports, flights, universe,
                   food_items, max_calories, files, generated_files,
                   twin_food_items, twin_files>>

\* for ... in TEST_CONFIGS: the call of generate_test_file with the next configuration
CallGenerateTestFile ==
    /\ pc = "loop"
    /\ ci < Len(configs)
    /\ ci' = ci + 1
    /\ draws' = 0
    /\ airports' = <<>>
    /\ flights' = <<>>
    /\ universe' = <<>>
    /\ food_items' = <<>>
    /\ twin_food_items' = <<>>
    /\ max_calories' = 0
    /\ pc' = IF prog = "crew" THEN "airports" ELSE "universe"
    /\ UNCHANGED <<prog, stream, rng, configs, files, generated_files, twin_files>>

\* main, after its loop
Finish ==
    /\ pc = "loop"
    /\ ci = Len(configs)
    /\ pc' = "done"
    /\ UNCHANGED <<prog, stream, rng, draws, configs, ci, airports, flights, universe,
                   food_items, max_calories, files, generated_files,
                   twin_food_items, twin_files>>

\* airports = generate_airports(num_airports)
GenerateAirports ==
    /\ pc = "airports"
    /\ airports' = generate_airports(cfg[1])
    /\ pc' = "schedule"
    /\ UNCHANGED <<prog, stream, rng, draws, configs, ci, flights, universe,
                   food_items, max_calories, files, generated_files,
                   twin_food_items, twin_files>>

\* flights = generate_flight_schedule(airports, num_flights)
GenerateFlightSchedule ==
    /\ pc = "schedule"
    /\ LET r == generate_flight_schedule(airports, cfg[2], rng)
       IN  /\ flights' = r.flights
           /\ Advance(r.used)
           /\ pc' = IF r.ok THEN "connectivity" ELSE "failed"
    /\ UNCHANGED <<prog, stream, configs, ci, airports, universe, food_items,
                   max_calories, files, generated_files, twin_food_items, twin_files>>

\* EnsureConnectivity in a generate_test_file that opens the file, and writes
\* its header, before the repair.
EnsureConnectivityAfterOpen ==
    /\ pc = "connectivity"
    /\ LET r == ensure_connectivity(airports, flights, rng)
       IN  /\ flights' = r.flights
           /\ Advance(r.used)
           /\ pc' = IF r.ok THEN "write" ELSE "failed"
    /\ files' = (CrewFilename(cfg) :> <<"#AIRPORTS," \o Join(airports)>>) @@ files
    /\ UNCHANGED <<prog, stream, configs, ci, airports, universe, food_items,
                   max_calories, generated_files, twin_food_items, twin_files>>

\* ensure_connectivity(airports, flights)
EnsureConnectivity ==
    /\ pc = "connectivity"
    /\ LET r == ensure_connectivity(airports, flights, rng)
       IN  /\ flights' = r.flights
           /\ Advance(r.used)
           /\ pc' = IF r.ok THEN "write" ELSE "failed"
    /\ UNCHANGED <<prog, stream, configs, ci, airports, universe, food_items,
                   max_calories, files, generated_files, twin_food_items, twin_files>>

\* The rest of generate_test_file (crew): the file is opened and written, and
\* main records what generate_test_file returns.
WriteCrewFile ==
    /\ pc = "write"
    /\ prog = "crew"
    /\ files' = (CrewFilename(cfg) :> CrewLines(airports, flights)) @@ files
    /\ twin_files' = (CrewFilename(cfg) :> CrewLines(airports, flights)) @@ twin_files
    /\ generated_files' = Append(generated_files,
                                 <<CrewFilename(cfg), cfg[1], Len(flights)>>)
    /\ pc' = "loop"
    /\ UNCHANGED <<prog, stream, rng, draws, configs, ci, airports, flights, universe,
                   food_items, max_calories, twin_food_items>>

\* universe = generate_universe(num_nutrients)
GenerateUniverse ==
    /\ pc = "universe"
    /\ universe' = generate_universe(cfg[2])
    /\ pc' = IF cfg[1] > 0 THEN "foods" ELSE "coverage"
    /\ UNCHANGED <<prog, stream, rng, draws, configs, ci, airports, flights,
                   food_items, max_calories, files, generated_files,
                   twin_food_items, twin_files>>

\* One iteration of `for i in range(num_foods)`:
\* food_items.append(generate_food_item(i + 1, universe, min_nutrients, max_nutrients))
GenerateFoodItem ==
    /\ pc = "foods"
    /\ LET r == generate_food_item(Len(food_items) + 1, universe,
                                   MIN_NUTRIENTS_PER_FOOD, MaxNutrients(cfg[2]), rng)
       IN  /\ food_items' = Append(food_items, r.food)
           /\ twin_food_items' = Append(twin_food_items, r.food)
           /\ Advance(r.used)
    /\ pc' = IF Len(food_items) + 1 < cfg[1] THEN "foods" ELSE "coverage"
    /\ UNCHANGED <<prog, stream, configs, ci, airports, flights, universe,
                   max_calories, files, generated_files, twin_files>>

\* ensure_coverage(food_items, universe), in this run and in its twin, each
\* with the iteration order its own process gives the set.
EnsureCoverage ==
    /\ pc = "coverage"
    /\ \E order, twin_order \in IterationOrders(Uncovered(food_items, universe), universe) :
          LET r == ensure_coverage(food_items, order, rng)
              t == ensure_coverage(twin_food_items, twin_order, rng)
          IN  /\ food_items' = r.food_items
              /\ twin_food_items' = t.food_items
              /\ Advance(r.used)
              /\ pc' = IF r.ok THEN "budget" ELSE "failed"
    /\ UNCHANGED <<prog, stream, configs, ci, airports, flights, universe,
                   max_calories, files, generated_files, twin_files>>

\* max_calories = calculate_max_calories(food_items, universe)
CalculateMaxCalories ==
    /\ pc = "budget"
    /\ LET r == calculate_max_calories(food_items, universe, rng)
       IN  /\ max_calories' = r.value
           /\ Advance(r.used)
           /\ pc' = IF r.ok THEN "write" ELSE "failed"
    /\ UNCHANGED <<prog, stream, configs, ci, airports, flights, universe,
                   food_items, files, generated_files, twin_food_items, twin_files>>

\* The rest of generate_test_file (set cover): the file is opened and written,
\* and main records what generate_test_file returns.
WriteSetCoverFile ==
    /\ pc = "write"
    /\ prog = "setcover"
    /\ files' = (SetCoverFilename(cfg) :> SetCoverLines(universe, max_calories, food_items))
                    @@ files
    /\ twin_files' = (SetCoverFilename(cfg)
                          :> SetCoverLines(universe, max_calories, twin_food_items))
                         @@ twin_files
    /\ generated_files' = Append(generated_files, <<SetCoverFilename(cfg), cfg[1], cfg[2]>>)
    /\ pc' = "loop"
    /\ UNCHANGED <<prog, stream, rng, draws, configs, ci, airports, flights, universe,
                   food_items, max_calories, twin_food_items>>

Next ==
    \/ Main
    \/ CallGenerateTestFile
    \/ Finish
    \/ GenerateAirports
    \/ GenerateFlightSchedule
    \/ EnsureConnectivity
    \/ WriteCrewFile
    \/ GenerateUniverse
    \/ GenerateFoodItem
    \/ EnsureCoverage
    \/ CalculateMaxCalories
    \/ WriteSetCoverFile

Spec == Init /\ [][Next]_vars

----------------------------------------------------------------------------
(* Properties. *)

\* generate_test_file has just returned: the dataset in airports and flights
\* (universe, max_calories and food_items) is the one it emitted.
CrewEmitted == prog = "crew" /\ pc = "loop" /\ ci > 0

SetCoverEmitted == prog = "setcover" /\ pc = "loop" /\ ci > 0

\* The name of the file of the current configuration.
Filename == IF prog = "crew" THEN CrewFilename(cfg) ELSE SetCoverFilename(cfg)

NoDuplicate(s) == \A i, j \in DOMAIN s : s[i] = s[j] => i = j

\* C1. Connectivity: in every flight-network dataset generate_test_file emits,
\* every airport of the airport list is the departure airport of at least one
\* flight of the emitted file.
Connectivity ==
    CrewEmitted =>
        /\ files[CrewFilename(cfg)] = CrewLines(airports, flights)
        /\ \A a \in Range(airports) :
              \E i \in DOMAIN flights : flights[i].departure_airport = a

\* A dataset of three airports or more was emitted, and the repair had to add
\* a departure to the sampled flights.
ConnectivityWitness ==
    /\ CrewEmitted
    /\ cfg[1] >= 3
    /\ cfg[2] >= 1
    /\ Len(flights) > cfg[2]

\* C2. Coverage: in every set-cover dataset generate_test_file emits, the union
\* of the foods' nutrient lists is exactly the set of the universe's nutrients.
Coverage ==
    SetCoverEmitted =>
        /\ files[SetCoverFilename(cfg)] = SetCoverLines(universe, max_calories, food_items)
        /\ Covered(food_items) = Range(universe)

\* A dataset was emitted in which a food holds more nutrients than a sampled
\* food can: the repair added to it.
CoverageWitness ==
    /\ SetCoverEmitted
    /\ \E i \in DOMAIN food_items :
          Len(food_items[i].nutrients) > MaxNutrients(cfg[2])

\* C3. Determinism: two runs of main that read the same values from the
\* random stream, over the same configurations, write identical files.
Determinism == twin_files = files

\* C4. Invalid-input rejection: a configuration with fewer than two airports,
\* or with a non-positive number of foods or nutrients, ends in an error
\* raised before any value is drawn for it, and no file is written for it.
InvalidConfig ==
    IF prog = "crew" THEN cfg[1] < 2 ELSE cfg[1] < 1 \/ cfg[2] < 1

InvalidInputRejected ==
    (ci > 0 /\ InvalidConfig) =>
        /\ draws = 0
        /\ pc \notin {"write", "loop", "done"}
        /\ Filename \notin DOMAIN files

\* C5. Temporal bounds: every flight, sampled or appended by the repair, has
\* arrival_time = departure_time + duration with 60 <= duration <= 600, and
\* 0 <= departure_time <= arrival_time <= 10000.
TemporalBounds ==
    \A i \in DOMAIN flights :
        /\ flights[i].arrival_time - flights[i].departure_time \in 60 .. 600
        /\ 0 <= flights[i].departure_time
        /\ flights[i].departure_time <= flights[i].arrival_time
        /\ flights[i].arrival_time <= 10000

\* An emitted dataset with a sampled flight and an appended one, one of which
\* leaves at the latest departure time and lasts the longest duration.
TemporalBoundsWitness ==
    /\ CrewEmitted
    /\ cfg[2] >= 1
    /\ Len(flights) > cfg[2]
    /\ \E i \in DOMAIN flights :
          /\ flights[i].departure_time = 9400
          /\ flights[i].arrival_time = 10000

\* C6. No self-loop: every flight, sampled or appended by the repair, departs
\* from and arrives at two different airports of the airport list.
NoSelfLoop ==
    \A i \in DOMAIN flights :
        /\ flights[i].departure_airport # flights[i].arrival_airport
        /\ flights[i].departure_airport \in Range(airports)
        /\ flights[i].arrival_airport \in Range(airports)

\* An emitted dataset with sampled flights and appended ones.
NoSelfLoopWitness ==
    /\ CrewEmitted
    /\ cfg[2] >= 2
    /\ Len(flights) >= cfg[2] + 2

\* The name C7 claims for position i: the letter of cycle k >= 1 is chr('A' + k - 1).
ClaimedName(i) ==
    LET k == i \div 10
    IN  prefixes[(i % 10) + 1]
            \o (IF k >= 1 THEN chr_from_A[(k - 1) + 1] ELSE "")
            \o ToString((i % 10) + 1)

\* C7 as claimed. Nutrient naming: position i holds prefix i mod 10, then for
\* cycle k = i div 10 >= 1 the letter chr('A' + k - 1), then (i mod 10) + 1;
\* the 11th name of generate_universe(12) is "VitaminA1".
NutrientNamingAsClaimed ==
    /\ \A j \in DOMAIN universe : universe[j] = ClaimedName(j - 1)
    /\ Len(universe) = 12 => universe[11] = "VitaminA1"

\* The name of position i with the letter of cycle k >= 1 being chr('A' + k).
LetterAfterA ==
    <<"B", "C", "D", "E", "F", "G", "H", "I", "J", "K", "L", "M", "N", "O",
      "P", "Q", "R", "S", "T", "U", "V", "W", "X", "Y", "Z">>

AmendedName(i) ==
    LET k   == i \div 10
        pos == i - 10 * k
    IN  prefixes[pos + 1] \o (IF k >= 1 THEN LetterAfterA[k] ELSE "") \o ToString(pos + 1)

\* C7, amended. Nutrient naming: position i holds prefix i mod 10, then for
\* cycle k = i div 10 >= 1 the letter chr('A' + k) (no letter when k = 0),
\* then (i mod 10) + 1; generate_universe(n) has max(n, 0) names, and the
\* 11th and 12th names of generate_universe(12) are "VitaminB1" and "MineralB2".
NutrientNaming ==
    (prog = "setcover" /\ pc \notin {"main", "loop", "universe", "done"}) =>
        /\ Len(universe) = Max(cfg[2], 0)
        /\ \A j \in DOMAIN universe : universe[j] = AmendedName(j - 1)
        /\ Len(universe) >= 1 => universe[1] = "Vitamin1"
        /\ Len(universe) >= 5 => universe[5] = "Omega5"
        /\ Len(universe) = 12 =>
              /\ universe[10] = "Nutrient10"
              /\ universe[11] = "VitaminB1"
              /\ universe[12] = "MineralB2"

\* generate_universe(12) has returned.
NutrientNamingWitness ==
    /\ prog = "setcover"
    /\ pc = "foods"
    /\ cfg[2] = 12
    /\ Len(universe) = 12

SortedByKey(fs) == \A i, j \in DOMAIN fs : i < j => KeyLeq(fs[i], fs[j])

\* The airports that depart no flight of fs, in the order of the airport list.
WithoutDeparture(aps, fs) == SelectSeq(aps, LAMBDA a : a \notin HasDeparture(fs))

\* C8. Repair is append-only and exact: ensure_connectivity leaves the flights
\* it was given as they were, num_flights of them sorted by (departure_time,
\* departure_airport), and appends one flight per airport that departed none
\* of them, in the order of the airport list, and nothing else.
RepairAppendsExactly ==
    [][(pc = "connectivity" /\ pc' = "write") =>
          LET missing == WithoutDeparture(airports, flights)
          IN  /\ Len(flights) = cfg[2]
              /\ SortedByKey(flights)
              /\ Len(flights') = cfg[2] + Len(missing)
              /\ SubSeq(flights', 1, Len(flights)) = flights
              /\ \A k \in DOMAIN missing :
                    flights'[Len(flights) + k].departure_airport = missing[k]]_vars

\* The repair has appended to two sampled flights or more, which the sort had
\* to order by departure time, and the appended flight leaves before the last
\* sampled one.
RepairAppendsExactlyWitness ==
    /\ prog = "crew"
    /\ pc = "write"
    /\ cfg[2] >= 2
    /\ Len(flights) > cfg[2]
    /\ flights[1].departure_time < flights[cfg[2]].departure_time
    /\ flights[Len(flights)].departure_time < flights[cfg[2]].departure_time

\* C9. No truncated file: a file changes only in the step that follows the
\* universe build, the sampling, the repair and the budget computation, and
\* then holds the whole dataset; a step that fails leaves every file as it
\* was, and no file for the failed configuration.
NoTruncatedFile ==
    [][/\ files' # files =>
              /\ pc = "write"
              /\ pc' = "loop"
              /\ DOMAIN files' = DOMAIN files \cup {Filename}
              /\ \A n \in DOMAIN files : n # Filename => files'[n] = files[n]
              /\ files'[Filename] =
                    IF prog = "crew" THEN CrewLines(airports, flights)
                    ELSE SetCoverLines(universe, max_calories, food_items)
       /\ pc' = "failed" =>
              /\ files' = files
              /\ Filename \notin DOMAIN files']_vars

\* The second configuration of a batch has failed, and the file of the first
\* is there.
NoTruncatedFileWitness ==
    /\ pc = "failed"
    /\ ci = 2
    /\ DOMAIN files # {}

\* max_per_food = max(10, floor(0.2 * |universe|)), clamped to |universe|
MaxPerFood == Min(Max(10, Len(universe) \div 5), Len(universe))

BeforeCoverage == prog = "setcover" /\ pc \in {"foods", "coverage"}

AfterCoverage == prog = "setcover" /\ pc \in {"budget", "write", "loop"}

=============================================================================
